---- MODULE Spec2Model ----
(***************************************************************************)
(* Model of the fossology-rs client: construction of the Fossology handle  *)
(* (version resolution with its legacy fallback), the version gate, the    *)
(* untagged response envelope and the endpoint operations.                 *)
(*                                                                         *)
(* Strings that the code parses (versions) are sequences of one-character  *)
(* strings.  A response body is a record: its JSON kind, the set of        *)
(* <<field, value kind>> pairs of a JSON object (the "shape" serde's       *)
(* derived Deserialize decides on) and the values the code reads.          *)
(***************************************************************************)
EXTENDS Integers, Sequences, FiniteSets, TLC

\* ------------------------------------------------------------------ bounds
\* longest version string of the version-comparison specification
MaxLen == 5
\* longest filesearch response list
MaxItems == 3

\* ------------------------------------------------------- version strings
Digits == <<"0", "1", "2", "3", "4", "5", "6", "7", "8", "9">>

DigitChars == {Digits[i] : i \in 1..10}

\* numeric value of one decimal digit character
DigitVal(c) == (CHOOSE i \in 1..10 : Digits[i] = c) - 1

\* str::split(|c| !char::is_alphanumeric(c)): the pieces between separators
RECURSIVE SplitFrom(_, _, _)
SplitFrom(s, i, cur) ==
    IF i > Len(s) THEN <<cur>>
    ELSE IF s[i] \in DigitChars
         THEN SplitFrom(s, i + 1, Append(cur, s[i]))
         ELSE <<cur>> \o SplitFrom(s, i + 1, <<>>)

\* str::parse::<i32>() of a piece made of decimal digits
RECURSIVE ParseNumber(_)
ParseNumber(p) ==
    IF p = <<>> THEN 0
    ELSE 10 * ParseNumber(SubSeq(p, 1, Len(p) - 1)) + DigitVal(p[Len(p)])

\* Version::from: empty pieces are skipped, every other piece is a number part
split_version_str(s) ==
    LET pieces == SplitFrom(s, 1, <<>>)
        kept   == SelectSeq(pieces, LAMBDA p : p # <<>>)
    IN  [i \in 1..Len(kept) |-> ParseNumber(kept[i])]

Flip(op) == CASE op = "Lt" -> "Gt" [] op = "Gt" -> "Lt" [] OTHER -> op

\* Version::compare_iter: walk both part lists; a list that ran out is equal
\* to the other as long as the other's remaining parts are zero
RECURSIVE compare_iter(_, _)
compare_iter(a, b) ==
    IF a = <<>>
    THEN IF b = <<>> THEN "Eq" ELSE Flip(compare_iter(b, a))
    ELSE IF b = <<>>
         THEN IF Head(a) = 0 THEN compare_iter(Tail(a), b) ELSE "Gt"
         ELSE IF Head(a) < Head(b) THEN "Lt"
              ELSE IF Head(a) > Head(b) THEN "Gt"
              ELSE compare_iter(Tail(a), Tail(b))

\* VersionCompare::compare_to(a, b, &CompOp::Ge)
compare_to_Ge(a, b) ==
    compare_iter(split_version_str(a), split_version_str(b)) \in {"Gt", "Eq"}

\* the exclusive comparison (CompOp::Gt in place of CompOp::Ge)
version_is_at_least_Gt(version, min) ==
    compare_iter(split_version_str(version), split_version_str(min)) = "Gt"

\* Fossology::version_is_at_least
version_is_at_least(version, min) == compare_to_Ge(version, min)

V100 == <<"1", ".", "0", ".", "0">>
V130 == <<"1", ".", "3", ".", "0">>
V133 == <<"1", ".", "3", ".", "3">>
V1100 == <<"1", ".", "1", "0", ".", "0">>

\* ------------------------------------------------------ deserialized types
\* A type is the set of <<field, kind>> pairs serde requires (req) and the
\* pairs of its Option fields (opt), which may be absent or null.
ApiInformation ==
    [req |-> {<<"name", "str">>, <<"description", "str">>, <<"version", "str">>,
              <<"security", "arr">>, <<"contact", "str">>, <<"license", "obj">>},
     opt |-> {}, list |-> FALSE]

ApiInformationV1 ==
    [req |-> {<<"version", "str">>, <<"security", "arr">>}, opt |-> {}, list |-> FALSE]

Health ==
    [req |-> {<<"status", "str">>, <<"scheduler", "obj">>, <<"db", "obj">>},
     opt |-> {}, list |-> FALSE]

Token == [req |-> {<<"Authorization", "str">>}, opt |-> {}, list |-> FALSE]

Info ==
    [req |-> {<<"code", "int">>, <<"message", "str">>, <<"type", "str">>},
     opt |-> {}, list |-> FALSE]

InfoWithNumber ==
    [req |-> {<<"code", "int">>, <<"message", "int">>, <<"type", "str">>},
     opt |-> {}, list |-> FALSE]

License ==
    [req |-> {<<"id", "int">>, <<"shortName", "str">>, <<"fullName", "str">>,
              <<"text", "str">>},
     opt |-> {<<"risk", "int">>, <<"isCandidate", "bool">>}, list |-> FALSE]

Upload ==
    [req |-> {<<"folderid", "int">>, <<"foldername", "str">>, <<"id", "int">>,
              <<"description", "str">>, <<"uploadname", "str">>,
              <<"uploaddate", "str">>, <<"hash", "obj">>},
     opt |-> {<<"assignee", "int">>}, list |-> FALSE]

FilesearchResponse ==
    [req |-> {<<"hash", "obj">>},
     opt |-> {<<"findings", "obj">>, <<"uploads", "arr">>, <<"message", "str">>},
     list |-> FALSE]

Job ==
    [req |-> {<<"id", "int">>, <<"name", "str">>, <<"queueDate", "str">>,
              <<"uploadId", "str">>, <<"userId", "str">>, <<"groupId", "str">>,
              <<"eta", "int">>, <<"status", "str">>},
     opt |-> {}, list |-> FALSE]

\* Vec<T>
VecOf(T) == [req |-> T.req, opt |-> T.opt, list |-> TRUE]

\* a JSON object of the given shape deserializes into the struct T: every
\* required field is there with its kind (unknown fields are ignored), and
\* an Option field that is there has its kind or is null
ShapeMatches(shape, T) ==
    /\ T.req \subseteq shape
    /\ \A p \in shape :
          (\E q \in T.opt : q[1] = p[1])
              => (p \in T.opt \/ p[2] = "null")

\* serde_json deserialization of a body into T
Deserializes(body, T) ==
    IF T.list
    THEN /\ body.kind = "array"
         /\ \A i \in 1..Len(body.items) : ShapeMatches(body.items[i].shape, T)
    ELSE /\ body.kind = "object"
         /\ ShapeMatches(body.shape, T)

\* the enum built with the second variant tried first
FossologyResponse_ErrorFirst(body, T) ==
    IF Deserializes(body, Info) THEN "ApiError"
    ELSE IF Deserializes(body, T) THEN "Response"
    ELSE "DecodeError"

\* #[serde(untagged)] enum FossologyResponse<T> { Response(T), ApiError(Info) }:
\* the variants are tried in declaration order
FossologyResponse(body, T) ==
    IF Deserializes(body, T) THEN "Response"
    ELSE IF Deserializes(body, Info) THEN "ApiError"
    ELSE "DecodeError"

\* ------------------------------------------------------- response bodies
NoBody ==
    [kind |-> "none", utf8 |-> TRUE, shape |-> {}, version |-> <<>>,
     message |-> "", number |-> 0, items |-> <<>>]

Object(shape) == [NoBody EXCEPT !.kind = "object", !.shape = shape]

\* not JSON at all (an HTML error page), valid UTF-8 or not
Garbage(utf8) == [NoBody EXCEPT !.kind = "garbage", !.utf8 = utf8]

ErrorBody(message) == [Object(Info.req) EXCEPT !.message = message]

NumberBody(n) == [Object(InfoWithNumber.req) EXCEPT !.number = n]

InfoBody(v) == [Object(ApiInformation.req) EXCEPT !.version = v]

VersionBody(v) == [Object(ApiInformationV1.req) EXCEPT !.version = v]

HealthBody == Object(Health.req)

\* a token answer that carries the error fields as well
TokenBody(withError) ==
    Object(Token.req \cup (IF withError THEN Info.req ELSE {}))

LicenseBody(riskKind) ==
    Object(License.req \cup (IF riskKind = "absent" THEN {} ELSE {<<"risk", riskKind>>}))

UploadBody == Object(Upload.req)

ErrorMessages ==
    {"No license found with provided shortName", "Upload does not exist",
     "Not found"}

CommonBodies ==
    {Garbage(TRUE), Garbage(FALSE), Object({})} \cup {ErrorBody(m) : m \in ErrorMessages}

\* Option<String> is a sequence of length at most one
OptMessages == {<<>>, <<"Not found">>, <<"not found">>}

Entry(h, m) ==
    [shape |-> FilesearchResponse.req
                 \cup (IF m = <<>> THEN {} ELSE {<<"message", "str">>}),
     hash |-> h, message |-> m]

\* the lists a filesearch answers with: one entry per hash asked, in order
EntryLists ==
    UNION {[1..n -> OptMessages] : n \in 0..MaxItems}

ListBody(ms) ==
    [NoBody EXCEPT !.kind = "array",
                   !.items = [i \in 1..Len(ms) |-> Entry(i, ms[i])]]

JobItem == [shape |-> Job.req, hash |-> 0, message |-> <<>>]

JobsBody == [NoBody EXCEPT !.kind = "array", !.items = <<JobItem>>]

\* an entry whose message is a number is no FilesearchResponse
BadListBody ==
    [NoBody EXCEPT !.kind = "array",
                   !.items = <<[shape |-> {<<"hash", "obj">>, <<"message", "int">>},
                                hash |-> 1, message |-> <<>>]>>]

SuccessBodies ==
    {InfoBody(V133), VersionBody(V100), HealthBody, TokenBody(FALSE),
     TokenBody(TRUE), LicenseBody("absent"), LicenseBody("null"),
     LicenseBody("str"), UploadBody, NumberBody(7), JobsBody, BadListBody}

\* ------------------------------------------------------------- responses
\* what one round trip yields: the send fails (connect, timeout, redirect),
\* the body cannot be read, or a status and a body arrive
SendFail == [outcome |-> "sendfail", status |-> 0, body |-> NoBody]

BodyFail == [outcome |-> "bodyfail", status |-> 200, body |-> NoBody]

Answer(status, body) == [outcome |-> "ok", status |-> status, body |-> body]

\* the versions servers report on the info endpoint and on the legacy one
ModernVersions == {V133, V1100}

LegacyVersions == {V100, V130}

\* the answers of the servers probed during construction: either shape on
\* either endpoint, an error envelope, a 404 page, or no answer
ProbeResponses ==
    {SendFail, BodyFail}
        \cup {Answer(200, InfoBody(v)) : v \in ModernVersions}
        \cup {Answer(200, VersionBody(v)) : v \in LegacyVersions}
        \cup {Answer(404, ErrorBody("Not found")), Answer(404, Garbage(TRUE))}

\* the answers to an endpoint operation: no answer, a page that is no JSON,
\* an error envelope, or one of the given bodies
OpResponses(bodies) ==
    {SendFail, BodyFail, Answer(502, Garbage(TRUE)), Answer(404, ErrorBody("Not found"))}
        \cup {Answer(200, b) : b \in bodies}

\* -------------------------------------------------------------- requests
NoHeaders ==
    [shortName |-> <<>>, groupName |-> <<>>, folderId |-> <<>>,
     uploadId |-> <<>>, limit |-> <<>>, page |-> <<>>]

\* a request: method, endpoint path, the segment after it, the bearer token
\* (empty when none is attached), the query parameter and the headers
Request(method, path, seg, bearer) ==
    [method |-> method, path |-> path, seg |-> seg, bearer |-> bearer,
     upload |-> <<>>, headers |-> NoHeaders]

\* Fossology::init_get_with_token
init_get_with_token(h, path, seg) == Request("GET", path, seg, <<h.token>>)

\* Fossology::init_get
init_get(h, path) == Request("GET", path, <<>>, <<>>)

\* Fossology::init_post_with_token
init_post_with_token(h, path) == Request("POST", path, <<>>, <<h.token>>)

\* RequestBuilder::header with an optional value: set when there is one
WithHeader(req, name, opt) ==
    IF opt = <<>> THEN req ELSE [req EXCEPT !.headers[name] = opt]

\* --------------------------------------------------------------- results
NoResult ==
    [op |-> "none", tag |-> "none", kind |-> "", cause |-> "", msg |-> "",
     raw |-> NoBody, ver |-> <<>>, num |-> 0, list |-> <<>>]

Ok(op, kind) == [NoResult EXCEPT !.op = op, !.tag = "Ok", !.kind = kind]

Err(op, kind) == [NoResult EXCEPT !.op = op, !.tag = "Err", !.kind = kind]

\* FossologyError::RequestError(reqwest::Error): "send", "body", "decode" or
\* "builder" is what reqwest failed at; the error holds no part of the body
RequestError(op, cause) == [Err(op, "RequestError") EXCEPT !.cause = cause]

\* FossologyError::Other(message), displayed as "Error: {message}"
Other(op, message) == [Err(op, "Other") EXCEPT !.msg = message]

\* FossologyError::UnexpectedResponse(text), "Unexpected response: {text}"
UnexpectedResponse(op, message) ==
    [Err(op, "UnexpectedResponse") EXCEPT !.msg = message]

\* String::from_utf8_lossy: bytes that are not UTF-8 come out replaced
from_utf8_lossy(body) ==
    IF body.utf8 THEN body ELSE [body EXCEPT !.kind = "replaced"]

\* the typed value an operation returns for a body that matched its type
Value(op, kind, body) ==
    [Ok(op, kind) EXCEPT !.ver = body.version, !.num = body.number]

\* FossologyResponse::return_response_or_error
return_response_or_error(op, variant, body) ==
    IF variant = "Response" THEN Value(op, "Value", body)
    ELSE UnexpectedResponse(op, body.message)

\* match response { Response(res) => Ok(res), ApiError(err) => Err(Other(err.message)) }
response_or_other(op, variant, body) ==
    IF variant = "Response" THEN Value(op, "Value", body)
    ELSE Other(op, body.message)

\* ----------------------------------------------------------------- state
VARIABLES
    pc,        \* "new", "legacy", "build" inside Fossology::new; "ready"; "failed"
    resolved,  \* the version Fossology::version returned, if it did
    handle,    \* the Fossology struct, if Fossology::new returned one
    newSent,   \* the requests sent by Fossology::new, in order
    newResp,   \* the responses Fossology::new received, in order
    args,      \* the arguments of the last endpoint operation called
    sent,      \* the requests sent by the last endpoint operation
    resp,      \* the response the last endpoint operation received, if any
    result,    \* what the last call returned
    cmpA,      \* comparison specification: the resolved version
    cmpB,      \* comparison specification: the minimum version
    cmpRes,    \* comparison specification: what version_is_at_least returned
    decBody,   \* decoding specification: the body
    decType,   \* decoding specification: the success type
    decOut     \* decoding specification: the variant decoded

vars ==
    <<pc, resolved, handle, newSent, newResp, args, sent, resp, result,
      cmpA, cmpB, cmpRes, decBody, decType, decOut>>

clientVars == <<pc, resolved, handle, newSent, newResp, args, sent, resp, result>>

\* no call yet, no response received
NoArgs ==
    [short_name |-> <<>>, group_name |-> <<>>, upload_id |-> <<>>,
     limit |-> <<>>, page |-> <<>>, file |-> "ok"]

NoResponse == [outcome |-> "none", status |-> 0, body |-> NoBody]

cmpVars == <<cmpA, cmpB, cmpRes>>

decVars == <<decBody, decType, decOut>>

\* the arguments of Fossology::new
Uri == "http://localhost:8080/repo/api/v1"

TokenArg == "token"

\* ------------------------------------------------- Fossology::new, version
\* client.get("{uri}/info").bearer_auth(token)
InfoProbe(token) == Request("GET", "info", <<>>, <<token>>)

\* the legacy probe sent with the token attached
VersionProbe_WithToken(token) == Request("GET", "version", <<>>, <<token>>)

\* client.get("{uri}/version"), no token
VersionProbe(token) == Request("GET", "version", <<>>, <<>>)

\* the fallback taken whatever the info endpoint answered
AfterInfo_AlwaysFallback(r) ==
    IF r.outcome = "sendfail" THEN "failed" ELSE "legacy"

\* where Fossology::version goes after the info probe: send()? returns the
\* transport error; a body that is an ApiInformation ends resolution; anything
\* else (body unreadable, other shape, not JSON) takes the else branch
AfterInfo(r) ==
    IF r.outcome = "sendfail" THEN "failed"
    ELSE IF r.outcome = "ok" /\ Deserializes(r.body, ApiInformation) THEN "build"
    ELSE "legacy"

\* the legacy answer accepted without parsing it
AfterVersion_NoCheck(r) ==
    IF r.outcome = "sendfail" THEN "failed" ELSE "build"

\* where Fossology::version goes after the legacy probe
AfterVersion(r) ==
    IF r.outcome = "sendfail" THEN "failed"
    ELSE IF r.outcome = "ok" /\ Deserializes(r.body, ApiInformationV1) THEN "build"
    ELSE "failed"

\* Fossology::version, first request
ProbeInfo ==
    /\ pc = "new"
    /\ \E r \in ProbeResponses :
          /\ newSent' = Append(newSent, InfoProbe(TokenArg))
          /\ newResp' = Append(newResp, r)
          /\ pc' = AfterInfo(r)
          /\ resolved' = IF AfterInfo(r) = "build" THEN <<r.body.version>> ELSE <<>>
          /\ result' = IF AfterInfo(r) = "failed"
                       THEN RequestError("new", "send") ELSE result
    /\ UNCHANGED <<handle, args, sent, resp, cmpVars, decVars>>

\* Fossology::version, the else branch
ProbeVersion ==
    /\ pc = "legacy"
    /\ \E r \in ProbeResponses :
          /\ newSent' = Append(newSent, VersionProbe(TokenArg))
          /\ newResp' = Append(newResp, r)
          /\ pc' = AfterVersion(r)
          /\ resolved' = IF AfterVersion(r) = "build" THEN <<r.body.version>> ELSE <<>>
          /\ result' = IF AfterVersion(r) = "build" THEN result
                       ELSE IF r.outcome = "sendfail" THEN RequestError("new", "send")
                       ELSE Other("new", "err.to_string()")
    /\ UNCHANGED <<handle, args, sent, resp, cmpVars, decVars>>

\* Fossology::new after Self::version(uri, token)? returned Ok: the client is
\* built (which may fail) and the struct is filled in
Build ==
    /\ pc = "build"
    /\ \E built \in BOOLEAN :
          IF built
          THEN /\ handle' = <<[uri |-> Uri, token |-> TokenArg,
                               version |-> resolved[1]]>>
               /\ pc' = "ready"
               /\ result' = Ok("new", "Value")
          ELSE /\ handle' = handle
               /\ pc' = "failed"
               /\ result' = RequestError("new", "builder")
    /\ UNCHANGED <<resolved, newSent, newResp, args, sent, resp, cmpVars, decVars>>

\* --------------------------------------------------- endpoint operations
\* An operation is a function of the handle, its arguments and the round
\* trip's outcome; it yields the requests it sent and what it returned.
Outcome(reqs, res) == [sent |-> reqs, result |-> res]

\* send()?.json::<FossologyResponse<T>>()?: the envelope variant, or the
\* reqwest error of the step that failed
json(op, r, T) ==
    IF r.outcome = "sendfail" THEN RequestError(op, "send")
    ELSE IF r.outcome = "bodyfail" THEN RequestError(op, "body")
    ELSE IF FossologyResponse(r.body, T) = "DecodeError" THEN RequestError(op, "decode")
    ELSE [Ok(op, FossologyResponse(r.body, T)) EXCEPT !.msg = r.body.message]

\* the gate that leaves 1.3.3 itself out
info_Exclusive(h, r) ==
    IF version_is_at_least_Gt(h.version, V133)
    THEN LET e == json("info", r, ApiInformation)
         IN  Outcome(<<init_get_with_token(h, "info", <<>>)>>,
                     IF e.tag = "Err" THEN e
                     ELSE return_response_or_error("info", e.kind, r.body))
    ELSE Outcome(<<>>, Err("info", "UnsupportedVersion"))

\* info::info
info(h, r) ==
    IF compare_to_Ge(h.version, V133)
    THEN LET e == json("info", r, ApiInformation)
         IN  Outcome(<<init_get_with_token(h, "info", <<>>)>>,
                     IF e.tag = "Err" THEN e
                     ELSE return_response_or_error("info", e.kind, r.body))
    ELSE Outcome(<<>>, Err("info", "UnsupportedVersion"))

\* info::version
version(h, r) ==
    LET e == json("version", r, ApiInformationV1)
    IN  Outcome(<<init_get(h, "version")>>,
                IF e.tag = "Err" THEN e
                ELSE return_response_or_error("version", e.kind, r.body))

\* info::health
health(h, r) ==
    LET e == json("health", r, Health)
    IN  Outcome(<<Request("GET", "health", <<>>, <<>>)>>,
                IF e.tag = "Err" THEN e
                ELSE response_or_other("health", e.kind, r.body))

\* auth::tokens
tokens(h, r) ==
    LET e == json("tokens", r, Token)
    IN  Outcome(<<Request("POST", "tokens", <<>>, <<>>)>>,
                IF e.tag = "Err" THEN e
                ELSE response_or_other("tokens", e.kind, r.body))

\* job::get_jobs: Ok(response.json()?) hands the envelope back as it is
get_jobs(h, upload_id, group_name, limit, page, r) ==
    LET b0 == init_get_with_token(h, "jobs", <<>>)
        b1 == [b0 EXCEPT !.upload = upload_id]
        b2 == WithHeader(b1, "groupName", group_name)
        b3 == WithHeader(b2, "limit", limit)
        b4 == WithHeader(b3, "page", page)
        e  == json("get_jobs", r, VecOf(Job))
    IN  Outcome(<<b4>>,
                IF e.tag = "Err" THEN e
                ELSE [Ok("get_jobs", IF e.kind = "Response" THEN "EnvelopeResponse"
                                     ELSE "EnvelopeApiError")
                        EXCEPT !.msg = r.body.message])

\* job::schedule_analysis: the body is read as InfoWithNumber, not as an envelope
schedule_analysis(h, folder_id, upload_id, group_name, r) ==
    LET b0 == init_post_with_token(h, "jobs")
        b1 == WithHeader(b0, "groupName", group_name)
        b2 == WithHeader(b1, "folderId", <<folder_id>>)
        b3 == WithHeader(b2, "uploadId", <<upload_id>>)
    IN  Outcome(<<b3>>,
                IF r.outcome = "sendfail" THEN RequestError("schedule_analysis", "send")
                ELSE IF r.outcome = "bodyfail" THEN RequestError("schedule_analysis", "body")
                ELSE IF ~Deserializes(r.body, InfoWithNumber)
                     THEN RequestError("schedule_analysis", "decode")
                ELSE [Ok("schedule_analysis", "EnvelopeResponse")
                        EXCEPT !.num = r.body.number])

\* the local file: it opens and reads, it does not open, or it opens and a
\* read of it fails (a directory, a file on a failing disk)
Files == {"ok", "unopenable", "unreadable"}

\* the file opened only after the request went out
new_upload_from_file_SendFirst(h, folder_id, file, r) ==
    LET b0 == Request("POST", "uploads", <<>>, <<h.token>>)
        b1 == WithHeader(b0, "folderId", <<folder_id>>)
        e  == json("new_upload_from_file", r, InfoWithNumber)
    IN  Outcome(<<b1>>,
                IF file = "unopenable" THEN Err("new_upload_from_file", "FileError")
                ELSE IF e.tag = "Err" THEN e
                ELSE response_or_other("new_upload_from_file", e.kind, r.body))

\* upload::new_upload_from_file: Form::new().file(..)? opens the file before
\* the request is built; the file is read while send() streams the body
new_upload_from_file(h, folder_id, file, r) ==
    IF file = "unopenable"
    THEN Outcome(<<>>, Err("new_upload_from_file", "FileError"))
    ELSE LET b0 == Request("POST", "uploads", <<>>, <<h.token>>)
             b1 == WithHeader(b0, "folderId", <<folder_id>>)
             e  == json("new_upload_from_file", r, InfoWithNumber)
         IN  Outcome(<<b1>>,
                     IF e.tag = "Err" THEN e
                     ELSE response_or_other("new_upload_from_file", e.kind, r.body))

\* i32 formatted into the path
IdStr(n) == IF n = 1 THEN "1" ELSE "99999"

\* every error envelope taken for a missing upload
get_upload_by_id_AnyErrorNone(h, upload_id, r) ==
    LET e == json("get_upload_by_id", r, Upload)
    IN  Outcome(<<Request("GET", "uploads", <<IdStr(upload_id)>>, <<h.token>>)>>,
                IF e.tag = "Err" THEN e
                ELSE IF e.kind = "Response" THEN Value("get_upload_by_id", "Some", r.body)
                ELSE Ok("get_upload_by_id", "None"))

\* upload::get_upload_by_id
get_upload_by_id(h, upload_id, r) ==
    LET e == json("get_upload_by_id", r, Upload)
    IN  Outcome(<<Request("GET", "uploads", <<IdStr(upload_id)>>, <<h.token>>)>>,
                IF e.tag = "Err" THEN e
                ELSE IF e.kind = "Response" THEN Value("get_upload_by_id", "Some", r.body)
                ELSE IF r.body.message = "Upload does not exist"
                     THEN Ok("get_upload_by_id", "None")
                ELSE Other("get_upload_by_id", r.body.message))

\* the filter that also drops the entries without a message
filter_not_found_DropsNone(res) ==
    SelectSeq(res, LAMBDA i : i.message # <<"Not found">> /\ i.message # <<>>)

\* res.into_iter().filter(|i| i.message != Some("Not found".to_string())).collect()
filter_not_found(res) ==
    SelectSeq(res, LAMBDA i : i.message # <<"Not found">>)

\* upload::filesearch
filesearch(h, group_name, r) ==
    LET b0 == init_post_with_token(h, "filesearch")
        b1 == WithHeader(b0, "groupName", group_name)
        e  == json("filesearch", r, VecOf(FilesearchResponse))
    IN  Outcome(<<b1>>,
                IF e.tag = "Err" THEN e
                ELSE IF e.kind = "Response"
                     THEN [Ok("filesearch", "Value")
                             EXCEPT !.list = filter_not_found(r.body.items)]
                ELSE Other("filesearch", r.body.message))

\* the request of get_license built in the header form whatever the version
license_request_HeaderOnly(h, short_name, group_name) ==
    WithHeader(WithHeader(init_get_with_token(h, "license", <<>>),
                          "shortName", <<short_name>>),
               "groupName", group_name)

\* license::get_license, the request: the gate picks the form at each call
license_request(h, short_name, group_name) ==
    LET b0 == IF version_is_at_least(h.version, V130)
              THEN init_get_with_token(h, "license", <<short_name>>)
              ELSE WithHeader(init_get_with_token(h, "license", <<>>),
                              "shortName", <<short_name>>)
    IN  WithHeader(b0, "groupName", group_name)

\* license::get_license: the bytes are kept and decoded with from_slice
get_license(h, short_name, group_name, r) ==
    Outcome(<<license_request(h, short_name, group_name)>>,
            IF r.outcome = "sendfail" THEN RequestError("get_license", "send")
            ELSE IF r.outcome = "bodyfail" THEN RequestError("get_license", "body")
            ELSE LET v == FossologyResponse(r.body, License)
                 IN  IF v = "DecodeError"
                     THEN [Err("get_license", "UnexpectedResponse")
                             EXCEPT !.raw = from_utf8_lossy(r.body)]
                     ELSE response_or_other("get_license", v, r.body))

\* ------------------------------------------------------- argument domains
GroupNames == {<<>>, <<"grp">>}

ShortNames == {"MIT", "does_not_exist"}

UploadIds == {1, 99999}

OptUploadIds == {<<>>, <<1>>}

\* limit and page, given or not
OptLimitPages == {<<<<>>, <<>>>>, <<<<10>>, <<>>>>, <<<<10>>, <<2>>>>}

FolderId == 1

\* the call returns: its requests and its result replace the last call's
\* a call that stores the version it was answered into the handle
Returns_ReResolves(a, r, o) ==
    /\ args' = a
    /\ sent' = o.sent
    /\ resp' = IF o.sent = <<>> THEN NoResponse ELSE r
    /\ result' = o.result
    /\ handle' = IF o.result.tag = "Ok" /\ o.result.op \in {"info", "version"}
                 THEN <<[handle[1] EXCEPT !.version = o.result.ver]>>
                 ELSE handle
    /\ UNCHANGED <<pc, resolved, newSent, newResp, cmpVars, decVars>>

\* every operation borrows the handle as &Fossology: the call returns with
\* the handle as it was
Returns(a, r, o) ==
    /\ args' = a
    /\ sent' = o.sent
    /\ resp' = IF o.sent = <<>> THEN NoResponse ELSE r
    /\ result' = o.result
    /\ UNCHANGED <<pc, resolved, handle, newSent, newResp, cmpVars, decVars>>

CallInfo ==
    /\ pc = "ready"
    /\ \E r \in OpResponses({InfoBody(V133), VersionBody(V100), TokenBody(TRUE)}) :
          Returns(NoArgs, r, info(handle[1], r))

CallVersion ==
    /\ pc = "ready"
    /\ \E r \in OpResponses({VersionBody(V100), InfoBody(V133), HealthBody}) :
          Returns(NoArgs, r, version(handle[1], r))

CallHealth ==
    /\ pc = "ready"
    /\ \E r \in OpResponses({HealthBody, TokenBody(TRUE)}) :
          Returns(NoArgs, r, health(handle[1], r))

CallTokens ==
    /\ pc = "ready"
    /\ \E r \in OpResponses({TokenBody(FALSE), TokenBody(TRUE), HealthBody}) :
          Returns(NoArgs, r, tokens(handle[1], r))

CallGetJobs ==
    /\ pc = "ready"
    /\ \E r \in OpResponses({JobsBody, ListBody(<<>>), BadListBody}),
          u \in OptUploadIds, g \in GroupNames, lp \in OptLimitPages :
          Returns([NoArgs EXCEPT !.upload_id = u, !.group_name = g,
                                  !.limit = lp[1], !.page = lp[2]],
                  r, get_jobs(handle[1], u, g, lp[1], lp[2], r))

CallScheduleAnalysis ==
    /\ pc = "ready"
    /\ \E r \in OpResponses({NumberBody(7), TokenBody(TRUE)}), u \in UploadIds, g \in GroupNames :
          Returns([NoArgs EXCEPT !.upload_id = <<u>>, !.group_name = g],
                  r, schedule_analysis(handle[1], FolderId, u, g, r))

CallNewUploadFromFile ==
    /\ pc = "ready"
    /\ \E r \in OpResponses({NumberBody(7), UploadBody}), file \in Files :
          \* a body that cannot be read makes send() fail
          /\ file = "unreadable" => r = SendFail
          /\ Returns([NoArgs EXCEPT !.file = file],
                     r, new_upload_from_file(handle[1], FolderId, file, r))

CallGetUploadById ==
    /\ pc = "ready"
    /\ \E r \in OpResponses({UploadBody, NumberBody(7),
                             ErrorBody("Upload does not exist")}),
          u \in UploadIds :
          Returns([NoArgs EXCEPT !.upload_id = <<u>>],
                  r, get_upload_by_id(handle[1], u, r))

CallFilesearch ==
    /\ pc = "ready"
    /\ \E r \in OpResponses({JobsBody, BadListBody}
                                \cup {ListBody(ms) : ms \in EntryLists}),
          g \in GroupNames :
          Returns([NoArgs EXCEPT !.group_name = g],
                  r, filesearch(handle[1], g, r))

LicenseAnswers ==
    {LicenseBody("absent"), LicenseBody("null"), LicenseBody("str"), Object({}),
     Garbage(FALSE), ErrorBody("No license found with provided shortName")}

CallGetLicense ==
    /\ pc = "ready"
    /\ \E r \in OpResponses(LicenseAnswers), n \in ShortNames, g \in GroupNames :
          Returns([NoArgs EXCEPT !.short_name = <<n>>, !.group_name = g],
                  r, get_license(handle[1], n, g, r))

\* ---------------------------------------------------------- specification
CmpIdle == cmpA = <<>> /\ cmpB = <<>> /\ cmpRes = "none"

DecIdle == decBody = NoBody /\ decType = Info /\ decOut = "none"

ClientIdle ==
    /\ pc = "idle"
    /\ resolved = <<>>
    /\ handle = <<>>
    /\ newSent = <<>>
    /\ newResp = <<>>
    /\ args = NoArgs
    /\ sent = <<>>
    /\ resp = NoResponse
    /\ result = NoResult

Init ==
    /\ pc = "new"
    /\ resolved = <<>>
    /\ handle = <<>>
    /\ newSent = <<>>
    /\ newResp = <<>>
    /\ args = NoArgs
    /\ sent = <<>>
    /\ resp = NoResponse
    /\ result = NoResult
    /\ CmpIdle
    /\ DecIdle

Next ==
    \/ ProbeInfo
    \/ ProbeVersion
    \/ Build
    \/ CallInfo
    \/ CallVersion
    \/ CallHealth
    \/ CallTokens
    \/ CallGetJobs
    \/ CallScheduleAnalysis
    \/ CallNewUploadFromFile
    \/ CallGetUploadById
    \/ CallFilesearch
    \/ CallGetLicense

Spec == Init /\ [][Next]_vars

\* ------------------------------------- specification of the version gate
\* dotted numeric strings: decimal numbers with single dots between them
Alphabet == {"0", "1", "."}

IsDotted(s) ==
    /\ s # <<>>
    /\ s[1] # "."
    /\ s[Len(s)] # "."
    /\ \A i \in 1..(Len(s) - 1) : ~(s[i] = "." /\ s[i + 1] = ".")

DottedVersions ==
    {s \in UNION {[1..n -> Alphabet] : n \in 1..MaxLen} : IsDotted(s)}

InitCmp ==
    /\ ClientIdle
    /\ DecIdle
    /\ cmpA \in DottedVersions
    /\ cmpB \in DottedVersions
    /\ cmpRes = "none"

\* self.version_is_at_least(version)
Compare ==
    /\ cmpRes = "none"
    /\ cmpRes' = IF version_is_at_least(cmpA, cmpB) THEN "true" ELSE "false"
    /\ UNCHANGED <<cmpA, cmpB, clientVars, decVars>>

NextCmp == Compare

SpecCmp == InitCmp /\ [][NextCmp]_vars

\* -------------------------------------------- specification of the decoder
DecTypes ==
    {ApiInformation, ApiInformationV1, Health, Token, InfoWithNumber, License,
     Upload, VecOf(Job), VecOf(FilesearchResponse)}

DecBodies ==
    CommonBodies \cup SuccessBodies \cup {ListBody(ms) : ms \in EntryLists}

InitDec ==
    /\ ClientIdle
    /\ CmpIdle
    /\ decBody \in DecBodies
    /\ decType \in DecTypes
    /\ decOut = "none"

\* serde_json::from_slice::<FossologyResponse<T>>(&bytes)
Decode ==
    /\ decOut = "none"
    /\ decOut' = FossologyResponse(decBody, decType)
    /\ UNCHANGED <<decBody, decType, clientVars, cmpVars>>

NextDec == Decode

SpecDec == InitDec /\ [][NextDec]_vars

\* ------------------------------------------------------------ properties
\* the probe's answer arrived and its body is a T
Parsed(r, T) == r.outcome = "ok" /\ Deserializes(r.body, T)

\* C1: when the body answered on the info endpoint is an ApiInformation, the
\* version resolved (and the handle's, once built) is that body's version
\* field and Fossology::new sends nothing but the one info request: no
\* request to the legacy version endpoint.
C1_ModernShapeResolves ==
    (Len(newResp) >= 1 /\ Parsed(newResp[1], ApiInformation)) =>
        /\ newSent = <<Request("GET", "info", <<>>, <<TokenArg>>)>>
        /\ \A i \in 1..Len(newSent) : newSent[i].path # "version"
        /\ resolved = <<newResp[1].body.version>>
        /\ handle # <<>> => handle[1].version = newResp[1].body.version

C1_Witness ==
    /\ pc = "ready"
    /\ newResp = <<Answer(200, InfoBody(V133))>>
    /\ handle[1].version = V133
    /\ Len(newSent) = 1

\* C2: when the info endpoint answers (a 404 included) with a body that is no
\* ApiInformation, exactly one more request follows, a GET of the legacy
\* version endpoint without a bearer token, and if its body is an
\* ApiInformationV1 the version resolved is that body's version field.
C2_LegacyFallback ==
    (Len(newResp) >= 1 /\ newResp[1].outcome = "ok"
        /\ ~Deserializes(newResp[1].body, ApiInformation)) =>
        /\ pc = "legacy" => Len(newSent) = 1
        /\ pc # "legacy" =>
              /\ Len(newSent) = 2
              /\ newSent[2].method = "GET"
              /\ newSent[2].path = "version"
              /\ newSent[2].seg = <<>>
              /\ newSent[2].bearer = <<>>
              /\ Parsed(newResp[2], ApiInformationV1) =>
                    /\ resolved = <<newResp[2].body.version>>
                    /\ pc # "failed" => pc \in {"build", "ready"}
                    /\ handle # <<>> => handle[1].version = newResp[2].body.version

C2_Witness ==
    /\ pc = "ready"
    /\ newResp = <<Answer(404, Garbage(TRUE)), Answer(200, VersionBody(V100))>>
    /\ handle[1].version = V100
    /\ Len(newSent) = 2
    /\ newSent[2].bearer = <<>>

\* C3: version resolution sends at most two requests, the info probe and then
\* at most one legacy probe; when neither probe yields a version
\* Fossology::new returns an error and there is no handle; a handle exists
\* only with a version that a probe yielded.
C3_BoundedResolution ==
    /\ Len(newSent) <= 2
    /\ Len(newSent) >= 1 => newSent[1].path = "info"
    /\ Len(newSent) = 2 => newSent[2].path = "version"
    /\ (Len(newResp) = 2 /\ ~Parsed(newResp[1], ApiInformation)
           /\ ~Parsed(newResp[2], ApiInformationV1)) =>
          /\ pc = "failed"
          /\ handle = <<>>
          /\ result.op = "new" /\ result.tag = "Err"
    /\ pc = "failed" => handle = <<>> /\ result.tag = "Err"
    /\ handle # <<>> =>
          /\ resolved = <<handle[1].version>>
          /\ \/ Len(newResp) = 1 /\ Parsed(newResp[1], ApiInformation)
             \/ Len(newResp) = 2 /\ Parsed(newResp[2], ApiInformationV1)

C3_Witness ==
    /\ pc = "failed"
    /\ newResp = <<Answer(404, Garbage(TRUE)), Answer(404, ErrorBody("Not found"))>>
    /\ Len(newSent) = 2
    /\ handle = <<>>
    /\ result = Other("new", "err.to_string()")

\* the number written in s[lo..hi]
RECURSIVE Pow10(_)
Pow10(n) == IF n = 0 THEN 1 ELSE 10 * Pow10(n - 1)

DotsBefore(s, i) == Cardinality({j \in 1..(i - 1) : s[j] = "."})

\* the k-th dot-separated component of s as a number, 0 when s has none
Component(s, k) ==
    LET idx == {i \in 1..Len(s) : s[i] # "." /\ DotsBefore(s, i) = k - 1}
        hi  == CHOOSE m \in idx : \A i \in idx : i <= m
        term(i) == DigitVal(s[i]) * Pow10(hi - i)
        RECURSIVE Total(_)
        Total(S) == IF S = {} THEN 0
                    ELSE LET i == CHOOSE x \in S : TRUE
                         IN  term(i) + Total(S \ {i})
    IN  IF idx = {} THEN 0 ELSE Total(idx)

\* a >= b in the numeric component-wise order: equal everywhere, or greater at
\* the first component where they differ
NumericGe(a, b) ==
    LET K == MaxLen + 1
        differ == {k \in 1..K : Component(a, k) # Component(b, k)}
    IN  \/ differ = {}
        \/ LET k == CHOOSE m \in differ : \A j \in differ : m <= j
           IN  Component(a, k) > Component(b, k)

\* C4: for every pair of dotted numeric version strings version_is_at_least
\* returns true exactly when the resolved version is greater than or equal to
\* the minimum in the numeric component-wise order, missing components
\* counting as 0: inclusive on equality, numeric on multi-digit components.
C4_GateIsNumericGe ==
    cmpRes # "none" => (cmpRes = "true" <=> NumericGe(cmpA, cmpB))

\* 1.100 against 1.11: greater as numbers, smaller as text
C4_Witness ==
    /\ cmpA = <<"1", ".", "1", "0", "0">>
    /\ cmpB = <<"1", ".", "1", "1">>
    /\ cmpRes = "true"

\* C5: health is gated at 1.3.3: on a handle whose version is below 1.3.3 it
\* fails with UnsupportedVersion and sends no request; on a handle whose
\* version is at least 1.3.3 it sends the request and returns the status
\* record the service answered with.
C5_HealthGated ==
    result.op = "health" =>
        IF NumericGe(handle[1].version, V133)
        THEN /\ Len(sent) = 1
             /\ Parsed(resp, Health) => result.tag = "Ok" /\ result.kind = "Value"
        ELSE /\ sent = <<>>
             /\ result.tag = "Err"
             /\ result.kind = "UnsupportedVersion"

\* C6: get_license sends exactly one GET with the bearer token, in the form
\* the gate picks at the call: at 1.3.0 or above the short name is the path
\* segment after license and there is no shortName header, below it the path
\* is license and the short name is the shortName header; the groupName
\* header is there exactly when a group name was given.
C6_LicenseRequestShape ==
    result.op = "get_license" =>
        /\ Len(sent) = 1
        /\ sent[1].method = "GET"
        /\ sent[1].path = "license"
        /\ sent[1].bearer = <<handle[1].token>>
        /\ IF NumericGe(handle[1].version, V130)
           THEN sent[1].seg = args.short_name /\ sent[1].headers.shortName = <<>>
           ELSE sent[1].seg = <<>> /\ sent[1].headers.shortName = args.short_name
        /\ sent[1].headers.groupName = args.group_name
        /\ Len(args.short_name) = 1

\* both forms on handles of both kinds: here the header form with a group
C6_Witness ==
    /\ result.op = "get_license"
    /\ handle[1].version = V100
    /\ args.short_name = <<"MIT">>
    /\ args.group_name = <<"grp">>
    /\ sent[1].seg = <<>>
    /\ sent[1].headers.shortName = <<"MIT">>
    /\ sent[1].headers.groupName = <<"grp">>

\* C7: decoding into the envelope has three outcomes in a fixed order: a body
\* of the success shape is the success variant, also when it has the error
\* shape too; otherwise a body of the error shape {code, message, type} is
\* the ApiError variant; otherwise decoding fails.  No tag field is read.
C7_DecodePrecedence ==
    decOut # "none" =>
        /\ decOut \in {"Response", "ApiError", "DecodeError"}
        /\ Deserializes(decBody, decType) => decOut = "Response"
        /\ (~Deserializes(decBody, decType) /\ Deserializes(decBody, Info))
              => decOut = "ApiError"
        /\ (~Deserializes(decBody, decType) /\ ~Deserializes(decBody, Info))
              => decOut = "DecodeError"

\* a body of both shapes decodes to the success variant
C7_Witness ==
    /\ decBody = TokenBody(TRUE)
    /\ decType = Token
    /\ Deserializes(decBody, Info)
    /\ decOut = "Response"

Operations ==
    {"info", "version", "health", "tokens", "get_jobs", "schedule_analysis",
     "new_upload_from_file", "get_upload_by_id", "filesearch", "get_license"}

\* the success type each operation decodes its answer into
SuccessType(op) ==
    CASE op = "info" -> ApiInformation
      [] op = "version" -> ApiInformationV1
      [] op = "health" -> Health
      [] op = "tokens" -> Token
      [] op = "get_jobs" -> VecOf(Job)
      [] op = "schedule_analysis" -> InfoWithNumber
      [] op = "new_upload_from_file" -> InfoWithNumber
      [] op = "get_upload_by_id" -> Upload
      [] op = "filesearch" -> VecOf(FilesearchResponse)
      [] OTHER -> License

\* C8: in every endpoint operation, a body that is neither of the success
\* shape nor of the error shape makes the operation fail with an error that
\* holds the raw payload.
C8_RawPayloadKept ==
    (result.op \in Operations /\ resp.outcome = "ok"
        /\ ~Deserializes(resp.body, SuccessType(result.op))
        /\ ~Deserializes(resp.body, Info)) =>
        /\ result.tag = "Err"
        /\ result.raw = resp.body

\* C9: every endpoint operation treats the envelope alike: the success
\* variant becomes the typed Ok value, the ApiError variant becomes an Err
\* whose text holds the service's message; never the envelope itself, never
\* a success value for a service error, never a transport or decode error.
C9_EnvelopeHandledAlike ==
    (result.op \in Operations /\ resp.outcome = "ok") =>
        /\ Deserializes(resp.body, SuccessType(result.op)) =>
              /\ result.tag = "Ok"
              /\ result.kind \in {"Value", "Some"}
        /\ (~Deserializes(resp.body, SuccessType(result.op))
               /\ Deserializes(resp.body, Info)) =>
              /\ result.tag = "Err"
              /\ result.kind \in {"Other", "UnexpectedResponse"}
              /\ result.msg = resp.body.message

NotFound == <<"Not found">>

\* C10: for every list a filesearch is answered with, the call succeeds and
\* returns the entries whose message is not "Not found", all of them and no
\* others, in the order of the answer.
C10_FilesearchFilter ==
    (result.op = "filesearch" /\ Parsed(resp, VecOf(FilesearchResponse))) =>
        LET items == resp.body.items
            kept  == {i \in 1..Len(items) : items[i].message # NotFound}
            out   == result.list
        IN  /\ result.tag = "Ok"
            /\ Len(out) = Cardinality(kept)
            /\ \A j \in 1..Len(out) :
                  /\ out[j].hash \in kept
                  /\ out[j] = items[out[j].hash]
            /\ \A j \in 1..(Len(out) - 1) : out[j].hash < out[j + 1].hash

\* three entries, the one in the middle not found: the other two, in order
C10_Witness ==
    /\ result.op = "filesearch"
    /\ resp.body = ListBody(<<<<>>, NotFound, <<"not found">>>>)
    /\ Len(result.list) = 2
    /\ result.list[1].hash = 1
    /\ result.list[2].hash = 3

C12_FileErrorBeforeRequest ==
    (result.op = "new_upload_from_file" /\ args.file # "ok") =>
        /\ result.tag = "Err"
        /\ result.kind = "FileError"
        /\ sent = <<>>

\* C12 amended: when the local file cannot be opened, new_upload_from_file
\* returns the file I/O error and no request has been sent; the POST to
\* uploads is sent only after the file was opened.  A file that opens and
\* cannot be read fails inside send(), as a request error.
C12_OpenErrorBeforeRequest ==
    result.op = "new_upload_from_file" =>
        /\ args.file = "unopenable" =>
              /\ result.tag = "Err"
              /\ result.kind = "FileError"
              /\ sent = <<>>
              /\ resp = NoResponse
        /\ result.kind = "FileError" => args.file = "unopenable"
        /\ sent # <<>> =>
              /\ args.file # "unopenable"
              /\ Len(sent) = 1
              /\ sent[1].method = "POST"
              /\ sent[1].path = "uploads"
              /\ sent[1].bearer = <<handle[1].token>>
        /\ args.file = "unreadable" =>
              /\ Len(sent) = 1
              /\ result.tag = "Err"
              /\ result.kind = "RequestError"

C12_Witness ==
    /\ result.op = "new_upload_from_file"
    /\ args.file = "unopenable"
    /\ result = Err("new_upload_from_file", "FileError")
    /\ sent = <<>>

TransportFailed(r) == r.outcome \in {"sendfail", "bodyfail"}

\* C13: a transport failure of a request is returned to the caller as the
\* request error and no other request follows in the same operation: an
\* endpoint operation sends at most one request, and in version resolution a
\* transport failure of the info probe ends resolution with that error, the
\* legacy probe being sent only after an info answer that arrived and did
\* not parse.
C13_TransportFailureEndsCall ==
    /\ Len(sent) <= 1
    /\ (result.op \in Operations /\ TransportFailed(resp)) =>
          /\ result.tag = "Err"
          /\ result.kind = "RequestError"
    /\ (Len(newResp) >= 1 /\ TransportFailed(newResp[1])) =>
          /\ Len(newSent) = 1
          /\ pc = "failed"
          /\ handle = <<>>
          /\ result.tag = "Err"
          /\ result.kind = "RequestError"
    /\ Len(newSent) = 2 =>
          /\ newResp[1].outcome = "ok"
          /\ ~Deserializes(newResp[1].body, ApiInformation)

ResolutionPaths == {"info", "version"}

\* C14: once the handle is built, its uri, token and version never change:
\* every step from a ready handle is an endpoint call that leaves the handle
\* and the record of its construction as they were, whatever the call
\* returns, and a call other than info or version sends nothing to the info
\* or version paths. The gate, version_is_at_least, reads nothing but the
\* handle's version and the minimum, so it answers alike before and after
\* every call.
C14_HandleImmutable ==
    [][pc = "ready" =>
          /\ pc' = "ready"
          /\ handle' = handle
          /\ resolved' = resolved
          /\ newSent' = newSent
          /\ newResp' = newResp
          /\ result'.op \in Operations
          /\ result'.op \notin ResolutionPaths =>
                \A i \in DOMAIN sent' : sent'[i].path \notin ResolutionPaths]_vars

\* info answered with a version other than the one the handle was built with
C14_Witness ==
    /\ pc = "ready"
    /\ result.op = "info"
    /\ result.tag = "Ok"
    /\ resp = Answer(200, InfoBody(V133))
    /\ handle = <<[uri |-> Uri, token |-> TokenArg, version |-> V1100]>>

\* C15: info is gated at 1.3.3 on the handle's version: below 1.3.3 it
\* returns UnsupportedVersion and sends nothing; from 1.3.3 on, 1.3.3
\* included, it sends exactly one GET to info carrying the handle's token and
\* returns what the answer decodes to, the body's record when the body is an
\* ApiInformation; its result is a decoded record, UnsupportedVersion or
\* another error, and never Ok without a request.
C15_InfoGate ==
    result.op = "info" =>
        /\ IF NumericGe(handle[1].version, V133)
           THEN /\ sent = <<Request("GET", "info", <<>>, <<handle[1].token>>)>>
                /\ ~(result.tag = "Err" /\ result.kind = "UnsupportedVersion")
                /\ Parsed(resp, ApiInformation) =>
                      /\ result.tag = "Ok"
                      /\ result.kind = "Value"
                      /\ result.ver = resp.body.version
                /\ ~Parsed(resp, ApiInformation) => result.tag = "Err"
           ELSE /\ sent = <<>>
                /\ resp = NoResponse
                /\ result = Err("info", "UnsupportedVersion")
        /\ result.tag \in {"Ok", "Err"}
        /\ result.tag = "Ok" => Len(sent) = 1 /\ Parsed(resp, ApiInformation)
        /\ result.tag = "Err" =>
              result.kind \in {"UnsupportedVersion", "RequestError",
                               "UnexpectedResponse"}

\* the threshold itself passes the gate
C15_Witness ==
    /\ result.op = "info"
    /\ handle # <<>>
    /\ handle[1].version = V133
    /\ Len(sent) = 1
    /\ result.tag = "Ok"
    /\ result.ver = V133

====
